---- MODULE Spec2Model ----
(***************************************************************************)
(* Session lifecycle and response normalisation of the Twikit scraper API  *)
(* (src/api/main.py).                                                      *)
(*                                                                         *)
(* The service is one asyncio event loop: a coroutine runs without         *)
(* interruption from one `await` of a provider call to the next, so every  *)
(* action below is the code of one handler between two suspension points.  *)
(***************************************************************************)
EXTENDS Integers, Sequences, FiniteSets, TLC

VARIABLES
    ENV_TYPE,            \* deployment mode, read once at import
    twikit_client,       \* the global client reference (Session Store)
    login_error_message, \* the global last bootstrap failure
    logged_in_user,      \* heap: _logged_in_user of every Client object
    published,           \* heap: the object has been assigned to twikit_client
    startup,             \* the lifespan startup running initialize_twikit_client
    tasks,               \* the request handlers in flight
    norm,                \* a normalisation run of one provider batch
    media                \* a variant selection run of one video item

vars == <<ENV_TYPE, twikit_client, login_error_message, logged_in_user,
          published, startup, tasks, norm, media>>

sessionVars == <<ENV_TYPE, twikit_client, login_error_message, logged_in_user,
                 published, startup, tasks>>

-----------------------------------------------------------------------------
(* Bounds *)

MaxReq == 2       \* request handlers that may be in flight together
MaxDate == 3      \* calendar dates are 1..MaxDate
MaxTweets == 2    \* records in one provider batch
MaxVariants == 4  \* encoding variants of one video item
MaxMedia == 2     \* items in one media list of a record

-----------------------------------------------------------------------------
(* Values *)

NONE == "<None>"              \* Python None, where the other values are strings
NoClient == 0                 \* twikit_client = None
ClientIds == 1..(MaxReq + 1)  \* Client objects alive together: store + one per task
TaskIds == 1..MaxReq
Handles == {"alice", "bob"}

\* What `await client.user()` may give back.
NoUser == [kind |-> "None", has_screen_name |-> FALSE, screen_name |-> NONE]
UserWithoutHandle == [kind |-> "User", has_screen_name |-> FALSE, screen_name |-> NONE]
User(h) == [kind |-> "User", has_screen_name |-> TRUE, screen_name |-> h]
ProbeReturns == {NoUser, UserWithoutHandle} \cup {User(h) : h \in Handles}
ProbeRaises == {"NotFound", "EOFError", "Exception"}
LoginOutcomes == {"ok", "EOFError", "Exception"}

\* `if user_data and hasattr(user_data, 'screen_name')`
UserVerified(user_data) == user_data.kind # "None" /\ user_data.has_screen_name

\* The TWITTER_COOKIES_JSON_STRING environment variable, by what the code asks of it.
Blob(nonempty, json, list, len, dict, n) ==
    [nonempty |-> nonempty, valid_json |-> json, is_list |-> list, len |-> len,
     first_is_dict |-> dict, ncookies |-> n]
BlobUnset == Blob(FALSE, FALSE, FALSE, 0, FALSE, 0)        \* unset or ""
BlobMalformed == Blob(TRUE, FALSE, FALSE, 0, FALSE, 0)     \* not JSON
BlobMapping == Blob(TRUE, TRUE, FALSE, 1, FALSE, 1)        \* {"a":"1"}
BlobEmptyList == Blob(TRUE, TRUE, TRUE, 0, FALSE, 0)       \* []
BlobTwoMappings == Blob(TRUE, TRUE, TRUE, 2, TRUE, 2)      \* [{"a":"1"},{"b":"2"}]
BlobListOfScalar == Blob(TRUE, TRUE, TRUE, 1, FALSE, 0)    \* ["a"]
BlobListOfEmpty == Blob(TRUE, TRUE, TRUE, 1, TRUE, 0)      \* [{}]
BlobCookies == Blob(TRUE, TRUE, TRUE, 1, TRUE, 2)          \* [{"a":"1","b":"2"}]
CookieBlobs == {BlobUnset, BlobMalformed, BlobMapping, BlobEmptyList, BlobTwoMappings,
                BlobListOfScalar, BlobListOfEmpty, BlobCookies}

\* A date query parameter: absent, matching the regex but no calendar date
\* (strptime raises ValueError), or a calendar date.
AbsentDate == [p |-> "absent", d |-> 0]
BadDate == [p |-> "bad", d |-> 0]
Date(n) == [p |-> "date", d |-> n]
Dates == 1..MaxDate
DateArgs == {AbsentDate, BadDate} \cup {Date(n) : n \in Dates}

-----------------------------------------------------------------------------
(* Raw provider records and the normaliser (pure) *)

\* tweet.created_at: missing, "", a datetime object, or a string that
\* strptime("%a %b %d %H:%M:%S %z %Y") accepts or rejects.
CreatedAt(form, parses, d) == [form |-> form, parses |-> parses, date |-> d]
CreatedAtAbsent == CreatedAt("absent", FALSE, 0)
CreatedAtEmpty == CreatedAt("empty", FALSE, 0)
CreatedAtGarbage == CreatedAt("string", FALSE, 0)
CreatedAts == {CreatedAtAbsent, CreatedAtEmpty, CreatedAtGarbage}
              \cup {CreatedAt(f, TRUE, d) : f \in {"datetime", "string"}, d \in Dates}

TweetIds == {NONE, "", "101", "102"}
TweetUsers == {NoUser, UserWithoutHandle, User("")} \cup {User(h) : h \in Handles}
Tweet(ca, id, user, mappable) ==
    [created_at |-> ca, id |-> id, user |-> user, mappable |-> mappable]

\* Python truthiness of an optional string.
Truthy(s) == s # NONE /\ s # ""

\* `if not tweet_created_at_str: continue`
HasCreatedAt(tweet) == tweet.created_at.form \notin {"absent", "empty"}

\* isinstance(datetime) or strptime succeeded; otherwise ValueError/TypeError.
CreatedAtParses(tweet) ==
    tweet.created_at.form = "datetime"
    \/ (tweet.created_at.form = "string" /\ tweet.created_at.parses)

\* tweet_dt.date()
TweetDate(tweet) == tweet.created_at.date

\* Mutant: the start bound is exclusive.
BeforeStartOrOn(tweet_date, start_date_obj) ==
    start_date_obj.p = "date" /\ tweet_date <= start_date_obj.d

\* `if start_date_obj and tweet_date < start_date_obj`
BeforeStart(tweet_date, start_date_obj) ==
    start_date_obj.p = "date" /\ tweet_date < start_date_obj.d

\* Mutant: no record is taken to be after the end date.
AfterEndIgnored(tweet_date, end_date_obj) == FALSE

\* `if end_date_obj and tweet_date > end_date_obj`
AfterEnd(tweet_date, end_date_obj) ==
    end_date_obj.p = "date" /\ tweet_date > end_date_obj.d

\* getattr(user_data, 'screen_name', None) if user_data else None
ScreenNameOf(user_data) ==
    IF user_data.kind # "None" /\ user_data.has_screen_name
    THEN user_data.screen_name ELSE NONE

\* f"https://twitter.com/{screen_name}/status/{tweet_id}", as its parts
StatusUrl(screen_name, tweet_id) ==
    <<"https://twitter.com", screen_name, "status", tweet_id>>
NoUrl == <<>>

\* Mutant: the URL is built whenever the id is there.
TweetUrlIdOnly(tweet_id, screen_name) ==
    IF Truthy(tweet_id) THEN StatusUrl(screen_name, tweet_id) ELSE NoUrl

\* `tweet_url = None; if tweet_id and screen_name: tweet_url = f"..."`
TweetUrl(tweet_id, screen_name) ==
    IF Truthy(tweet_id) /\ Truthy(screen_name)
    THEN StatusUrl(screen_name, tweet_id) ELSE NoUrl

\* TweetData(id=..., created_at=..., user=TweetUser(...) if user_data else None, tweet_url=...)
TweetData(tweet, index) ==
    [index |-> index,
     id |-> tweet.id,
     has_user |-> tweet.user.kind # "None",
     screen_name |-> ScreenNameOf(tweet.user),
     tweet_url |-> TweetUrl(tweet.id, ScreenNameOf(tweet.user))]

\* One iteration of the `for tweet in tweets_result` loop of search_tweets.
SearchStep(tweet, index, start_date_obj, end_date_obj, acc) ==
    IF ~HasCreatedAt(tweet) THEN acc
    ELSE IF ~CreatedAtParses(tweet) THEN acc
    ELSE IF BeforeStart(TweetDate(tweet), start_date_obj)
         THEN [acc EXCEPT !.filtered_count = @ + 1]
    ELSE IF AfterEnd(TweetDate(tweet), end_date_obj)
         THEN [acc EXCEPT !.filtered_count = @ + 1]
    ELSE IF ~tweet.mappable THEN [acc EXCEPT !.raised = TRUE]
    ELSE [acc EXCEPT !.response_data = Append(@, TweetData(tweet, index))]

RECURSIVE SearchLoop(_, _, _, _, _)
SearchLoop(tweets, index, start_date_obj, end_date_obj, acc) ==
    IF index > Len(tweets) \/ acc.raised THEN acc
    ELSE SearchLoop(tweets, index + 1, start_date_obj, end_date_obj,
                    SearchStep(tweets[index], index, start_date_obj, end_date_obj, acc))

EmptyAcc == [response_data |-> <<>>, filtered_count |-> 0, raised |-> FALSE]

\* search_tweets after the provider call returned `tweets`.
ProcessSearch(tweets, start_date_obj, end_date_obj) ==
    SearchLoop(tweets, 1, start_date_obj, end_date_obj, EmptyAcc)

\* One iteration of the loop of get_user_tweets: a mapping error is caught per record.
UserTweetsStep(tweet, index, acc) ==
    IF ~tweet.mappable THEN acc
    ELSE [acc EXCEPT !.response_data = Append(@, TweetData(tweet, index))]

RECURSIVE UserTweetsLoop(_, _, _)
UserTweetsLoop(tweets, index, acc) ==
    IF index > Len(tweets) THEN acc
    ELSE UserTweetsLoop(tweets, index + 1, UserTweetsStep(tweets[index], index, acc))

ProcessUserTweets(tweets) == UserTweetsLoop(tweets, 1, EmptyAcc)

(* ---- video variants ---- *)

\* variant.get('bitrate', 0): a missing key, None, a non-numeric string, or an integer.
NoBitrate == [kind |-> "absent", n |-> 0]
NoneBitrate == [kind |-> "None", n |-> 0]
GarbageBitrate == [kind |-> "garbage", n |-> 0]
Bitrate(n) == [kind |-> "int", n |-> n]
Bitrates == {-2, 0, 300, 500, 900}

Variant(content_type, bitrate, url) ==
    [content_type |-> content_type, bitrate |-> bitrate, url |-> url]

\* Mutant: a bitrate that does not parse puts the variant below every other.
CurrentBitrateUnparsedLowest(variant) ==
    IF variant.bitrate.kind = "int" THEN variant.bitrate.n ELSE -2

\* `try: int(bitrate) except (ValueError, TypeError): 0`, on variant.get('bitrate', 0)
CurrentBitrate(variant) ==
    IF variant.bitrate.kind = "int" THEN variant.bitrate.n ELSE 0

\* `isinstance(variant, dict) and variant.get('content_type') == 'video/mp4'`
IsMp4(variant) == variant.content_type = "video/mp4"

\* Mutant: a later variant must beat the best bitrate, not equal it.
ReplacesStrictly(variant, max_bitrate) ==
    Truthy(variant.url) /\ CurrentBitrate(variant) > max_bitrate

\* `variant_url and current_bitrate >= max_bitrate`
Replaces(variant, max_bitrate) ==
    Truthy(variant.url) /\ CurrentBitrate(variant) >= max_bitrate

\* One iteration of `for variant in variants`.
VariantStep(variant, best) ==
    IF IsMp4(variant) /\ Replaces(variant, best.max_bitrate)
    THEN [max_bitrate |-> CurrentBitrate(variant), best_url |-> variant.url]
    ELSE best

RECURSIVE VariantLoop(_, _, _)
VariantLoop(variants, i, best) ==
    IF i > Len(variants) THEN best
    ELSE VariantLoop(variants, i + 1, VariantStep(variants[i], best))

\* `best_url = None; max_bitrate = -1; for ...`
SelectVariant(variants) ==
    VariantLoop(variants, 1, [max_bitrate |-> -1, best_url |-> NONE])

\* `if best_url and isinstance(best_url, str): media_urls.append(best_url)`
VideoUrls(variants) ==
    IF Truthy(SelectVariant(variants).best_url)
    THEN <<SelectVariant(variants).best_url>> ELSE <<>>

(* ---- media items of one record ---- *)

\* A media item as the loop reads it with getattr: its type, its
\* media_url_https (None, "" or a string), and video_info['variants'] (a video
\* item carries a thumbnail in media_url_https). An item that is a plain
\* mapping, or of another type, has no `type` the loop knows.
MediaItem(type, url, variants) ==
    [type |-> type, media_url_https |-> url, variants |-> variants]
Photo(url) == MediaItem("photo", url, <<>>)
AnimatedGif(url) == MediaItem("animated_gif", url, <<>>)
Video(variants) == MediaItem("video", "https://pbs.twimg.com/thumb.jpg", variants)
OtherItem == MediaItem("other", "https://pbs.twimg.com/other.jpg", <<>>)

\* The media_urls one item adds: `if media_type in ['photo', 'animated_gif']`,
\* `elif media_type == 'video'`.
ItemUrls(media_item) ==
    IF media_item.type \in {"photo", "animated_gif"}
    THEN IF Truthy(media_item.media_url_https) THEN <<media_item.media_url_https>> ELSE <<>>
    ELSE IF media_item.type = "video" THEN VideoUrls(media_item.variants)
    ELSE <<>>

\* Mutant: the primary list is read as well as the extended one.
MediaListBoth(extended_is_dict, extended_media, primary_media) ==
    (IF extended_is_dict THEN extended_media ELSE <<>>) \o primary_media

\* `media_list = extended_entities.get('media', [])` if extended_entities is a
\* non-empty dict; `if not media_list: media_list = getattr(tweet, 'media', [])`
MediaList(extended_is_dict, extended_media, primary_media) ==
    IF extended_is_dict /\ extended_media # <<>> THEN extended_media ELSE primary_media

RECURSIVE MediaLoop(_, _, _)
\* `for media_item in media_list`, appending to media_urls.
MediaLoop(media_list, i, media_urls) ==
    IF i > Len(media_list) THEN media_urls
    ELSE MediaLoop(media_list, i + 1, media_urls \o ItemUrls(media_list[i]))

\* `media_urls = []` ... to the end of the media extraction of one record.
MediaUrls(extended_is_dict, extended_media, primary_media) ==
    MediaLoop(MediaList(extended_is_dict, extended_media, primary_media), 1, <<>>)

\* Mutant: only the format of the dates is checked, not their order.
SearchValidationFormatOnly(start_date, end_date) ==
    IF start_date.p = "bad" \/ end_date.p = "bad" THEN "Invalid date format" ELSE "ok"

\* The date checks of search_tweets before the provider call.
SearchValidation(start_date, end_date) ==
    IF start_date.p = "bad" \/ end_date.p = "bad" THEN "Invalid date format"
    ELSE IF start_date.p = "date" /\ end_date.p = "date" /\ start_date.d > end_date.d
         THEN "Start date cannot be after end date"
    ELSE "ok"

-----------------------------------------------------------------------------
(* Session Store, heap of Client objects, Gate *)

\* Client objects some reference still reaches; the others are garbage.
Refs(tc, ts, st) == ({tc} \cup {ts[t].client : t \in TaskIds} \cup {st.client}) \ {NoClient}
Collect(heap, default, refs) == [c \in ClientIds |-> IF c \in refs THEN heap[c] ELSE default]

\* The heap after a step that left `lu` and `pub` (to be conjoined last).
Heap(lu, pub) ==
    /\ logged_in_user' = Collect(lu, NoUser, Refs(twikit_client', tasks', startup'))
    /\ published' = Collect(pub, FALSE, Refs(twikit_client', tasks', startup'))

\* Client('en-US'): a fresh object, _logged_in_user unset.
NewClient == CHOOSE c \in ClientIds :
    /\ c \notin Refs(twikit_client, tasks, startup)
    /\ \A d \in ClientIds : d \notin Refs(twikit_client, tasks, startup) => c <= d

\* `twikit_client and twikit_client._logged_in_user`
ClientReady ==
    twikit_client # NoClient /\ logged_in_user[twikit_client].kind # "None"

\* Mutant: the dependency hands out twikit_client without looking at it.
GateAcceptsAlways == TRUE

\* get_twikit_client: the condition under which the dependency returns the client.
GateAccepts == ClientReady

\* Mutant: the 503 carries the /login-admin hint in every mode.
GateDetailDevHint ==
    "Twikit client not available or not logged in. Try logging in via /login-admin."

\* get_twikit_client: the detail of the 503.
GateDetail ==
    IF ENV_TYPE = "dev"
    THEN "Twikit client not available or not logged in. Try logging in via /login-admin."
    ELSE "Twikit client not available. Check server logs and ensure TWITTER_AUTH_TOKEN is set correctly for prod mode."

\* Mutant: relogin without its "already logged in" check.
AlreadyLoggedInUnchecked == FALSE

\* relogin: `if twikit_client and twikit_client._logged_in_user` (already logged in).
AlreadyLoggedIn == ClientReady

\* Mutant: the client is published without its identity being stored on it.
SetLoggedInUserSkipped(c, user_data) == logged_in_user

\* `temp_client._logged_in_user = user_data` / `client._logged_in_user = user_data`
SetLoggedInUser(c, user_data) == [logged_in_user EXCEPT ![c] = user_data]

\* Mutant: a failed manual login leaves the global client as it is.
ManualFailureStoreKept == twikit_client

\* `twikit_client = None` on the failure paths of attempt_manual_login.
ManualFailureStore == NoClient

-----------------------------------------------------------------------------
(* Startup: lifespan -> initialize_twikit_client *)

StartupIdle ==
    [pc |-> "start", client |-> NoClient, blob |-> BlobUnset, creds |-> FALSE,
     outcome |-> "", diag |-> "", calls |-> <<>>, probe |-> "", got |-> ""]

\* Mutant: an empty cookie mapping is let through.
CookieBlobCheckNoEmpty(blob) ==
    IF ~blob.nonempty THEN "env not set"
    ELSE IF ~blob.valid_json THEN "invalid JSON"
    ELSE IF ~(blob.is_list /\ blob.len = 1 /\ blob.first_is_dict) THEN "structure is different"
    ELSE "ok"

\* Mutant: the blob is not required to be a one-element list of a mapping.
CookieBlobCheckNoShape(blob) ==
    IF ~blob.nonempty THEN "env not set"
    ELSE IF ~blob.valid_json THEN "invalid JSON"
    ELSE IF blob.ncookies = 0 THEN "no cookies found"
    ELSE "ok"

\* The structural checks of the cookie blob, in the order of the code; "ok" or the error logged.
CookieBlobCheck(blob) ==
    IF ~blob.nonempty THEN "env not set"
    ELSE IF ~blob.valid_json THEN "invalid JSON"
    ELSE IF ~(blob.is_list /\ blob.len = 1 /\ blob.first_is_dict) THEN "structure is different"
    ELSE IF blob.ncookies = 0 THEN "no cookies found"
    ELSE "ok"

\* initialize_twikit_client at its return, with what it logged.
StartupFailed(st, diag) ==
    [st EXCEPT !.pc = "done", !.client = NoClient, !.outcome = "failed", !.diag = diag]
StartupSucceeded(st) ==
    [st EXCEPT !.pc = "done", !.client = NoClient, !.outcome = "session"]
\* lifespan after `await initialize_twikit_client()`: the `yield`, requests are served.
StartupServing == [StartupIdle EXCEPT !.pc = "serving"]

\* initialize_twikit_client up to its first await (prod: client.user(); dev: client.login()).
StartupBegin ==
    /\ startup.pc = "start"
    /\ twikit_client' = NoClient
    /\ UNCHANGED <<ENV_TYPE, tasks>>
    /\ IF ENV_TYPE = "prod"
       THEN /\ login_error_message' = NONE
            /\ \E blob \in CookieBlobs, ctor \in {"ok", "raises"} :
                 LET st == [startup EXCEPT !.blob = blob] IN
                 IF CookieBlobCheck(blob) # "ok"
                 THEN startup' = StartupFailed(st, CookieBlobCheck(blob))
                 ELSE IF ctor = "raises"
                 THEN startup' = StartupFailed([st EXCEPT !.calls = <<"Client">>,
                                                          !.got = "Exception"],
                                               "failed to initialize/verify")
                 ELSE startup' = [st EXCEPT !.pc = "probe", !.client = NewClient,
                                            !.calls = <<"Client", "user">>]
       ELSE \E creds \in BOOLEAN :
                 LET st == [startup EXCEPT !.creds = creds] IN
                 IF ~creds
                 THEN /\ login_error_message' =
                           "Dev Mode: Credentials not found in .env for automatic login."
                      /\ startup' = StartupFailed(st, "credentials not found")
                 ELSE /\ login_error_message' = NONE
                      /\ startup' = [st EXCEPT !.pc = "login", !.client = NewClient,
                                               !.calls = <<"login">>]
    /\ Heap(logged_in_user, published)

\* Mutant: the dev startup only logs the exception it caught.
StartupErrorMessageLoggedOnly(exc) == login_error_message

\* The err_msg the `except EOFError` / `except Exception` of the dev startup stores.
StartupErrorMessage(exc) ==
    IF exc = "EOFError"
    THEN "[Dev Mode] Automatic login failed: Interactive input required."
    ELSE "Dev Mode: Automatic login failed. Check logs."

\* The dev startup caught `exc` from login() or user(): to the end of the function.
StartupCaught(st, exc) ==
    /\ login_error_message' = StartupErrorMessage(exc)
    /\ IF exc = "EOFError"
       THEN /\ startup' = StartupFailed([st EXCEPT !.got = exc], "interactive input required")
            /\ UNCHANGED twikit_client
       ELSE /\ startup' = StartupFailed([st EXCEPT !.got = exc], "automatic login failed")
            /\ twikit_client' = NoClient

\* dev: `await client.login(...)` returns or raises; on success client.user() is awaited.
StartupLoginReturn(inp) ==
    /\ startup.pc = "login"
    /\ UNCHANGED <<ENV_TYPE, tasks>>
    /\ \E outcome \in inp.logins :
         IF outcome = "ok"
         THEN /\ startup' = [startup EXCEPT !.pc = "probe", !.calls = Append(@, "user"),
                                            !.got = "ok"]
              /\ UNCHANGED <<twikit_client, login_error_message>>
         ELSE StartupCaught(startup, outcome)
    /\ Heap(logged_in_user, published)

\* What `await client.user()` gave, as the log shows it.
ProbeSeen(user_data) ==
    IF user_data.kind = "None" THEN "None"
    ELSE IF ~user_data.has_screen_name THEN "User without screen_name"
    ELSE "User"

\* Mutant: a NotFound of the probe is logged like any other exception.
ProbeRaisedDiagGeneric(exc) == "failed to initialize/verify"

\* prod: what is logged when client.user() raises (`except NotFound`, else the general catch).
ProbeRaisedDiag(exc) ==
    IF exc = "NotFound" THEN "404: invalid cookies or API change"
    ELSE "failed to initialize/verify"

\* `user_data = await client.user()` returns or raises, to the end of the function.
StartupProbeReturn(inp) ==
    /\ startup.pc = "probe"
    /\ UNCHANGED <<ENV_TYPE, tasks>>
    /\ \/ \E user_data \in inp.probes :
            LET st == [startup EXCEPT !.probe = ProbeSeen(user_data),
                                      !.got = ProbeSeen(user_data)] IN
            IF UserVerified(user_data)
            THEN /\ twikit_client' = startup.client
                 /\ startup' = StartupSucceeded(st)
                 /\ UNCHANGED login_error_message
                 /\ Heap(SetLoggedInUser(startup.client, user_data),
                         [published EXCEPT ![startup.client] = TRUE])
            ELSE /\ UNCHANGED twikit_client
                 /\ IF ENV_TYPE = "prod"
                    THEN /\ startup' = StartupFailed(st, "failed to retrieve valid user data")
                         /\ UNCHANGED login_error_message
                    ELSE /\ startup' = StartupFailed(st, "failed to retrieve user data")
                         /\ login_error_message' =
                              "Dev Mode: Automatic login succeeded but could not verify user data."
                 /\ Heap(logged_in_user, published)
       \/ \E exc \in inp.raises :
            LET st == [startup EXCEPT !.probe = exc] IN
            /\ IF ENV_TYPE = "prod"
               THEN /\ startup' = StartupFailed([st EXCEPT !.got = exc], ProbeRaisedDiag(exc))
                    /\ UNCHANGED <<twikit_client, login_error_message>>
               ELSE StartupCaught(st, exc)
            /\ Heap(logged_in_user, published)

-----------------------------------------------------------------------------
(* Requests *)

IdleTask ==
    [kind |-> "", pc |-> "idle", gate |-> "", client |-> NoClient, status |-> 0,
     detail |-> "", calls |-> <<>>, start |-> AbsentDate, end |-> AbsentDate,
     ident |-> "", user_id |-> "", text |-> "", got |-> "", result |-> <<>>]

Protected == {"search", "user_tweets", "trends", "create_tweet", "user_id"}

Serving(t) == startup.pc = "serving" /\ tasks[t].pc = "idle"

\* The handler returned or raised HTTPException(status, detail); its locals are gone.
Respond(task, status, detail) ==
    [task EXCEPT !.pc = "done", !.status = status, !.detail = detail, !.client = NoClient]

\* The handler suspended in `await client.<call>(...)`.
Await(task, call) == [task EXCEPT !.pc = call, !.calls = Append(@, call)]

\* The awaited provider call returned or raised `outcome`.
Got(task, outcome) == [task EXCEPT !.got = outcome]

\* Mutant: the dependency only checks; the handler is left to read the global.
GateWithoutHandle(task, kind) ==
    IF GateAccepts
    THEN [task EXCEPT !.kind = kind, !.gate = "passed"]
    ELSE Respond([task EXCEPT !.kind = kind, !.gate = "rejected"], 503, GateDetail)

\* Depends(get_twikit_client) of a protected endpoint: the client, or the 503.
Gate(task, kind) ==
    IF GateAccepts
    THEN [task EXCEPT !.kind = kind, !.gate = "passed", !.client = twikit_client]
    ELSE Respond([task EXCEPT !.kind = kind, !.gate = "rejected"], 503, GateDetail)

\* What a provider call of a protected handler may raise, by the text of the exception.
ProviderRaises == {"Exception", "Exception: Rate limit exceeded", "Exception: status 429"}

\* Mutant: the handler issues the failed provider call once more.
ProviderFailedRetry(task, exc, status, detail) ==
    IF Len(task.calls) < 3 THEN Await(Got(task, exc), task.pc)
    ELSE Respond(Got(task, exc), status, detail)

\* `except Exception as e: raise HTTPException(status_code=..., detail=...)`
ProviderFailed(task, exc, status, detail) == Respond(Got(task, exc), status, detail)

\* lifespan reaches its `yield`: the application starts serving requests.
StartupYield ==
    /\ startup.pc = "done"
    /\ startup' = StartupServing
    /\ UNCHANGED <<ENV_TYPE, tasks, twikit_client, login_error_message>>
    /\ Heap(logged_in_user, published)

(* ---- relogin -> attempt_manual_login ---- *)

\* Mutant: relogin is served in every mode.
ReloginAllowedAlways == TRUE

\* relogin: `if ENV_TYPE != 'dev': raise HTTPException(404)`, negated.
ReloginAllowed == ENV_TYPE = "dev"

\* attempt_manual_login: `if ENV_TYPE != 'dev': return False`, negated.
ManualLoginAllowed == ENV_TYPE = "dev"

\* relogin: `urllib.parse.quote(login_error_message or 'Login failed, check logs.')`
ReloginErrorParam(message) ==
    IF Truthy(message) THEN message ELSE "Login failed, check logs."

\* relogin, and attempt_manual_login up to `await temp_client.login(...)`.
ReloginStart(t) ==
    /\ Serving(t)
    /\ UNCHANGED <<ENV_TYPE, startup>>
    /\ LET task == [tasks[t] EXCEPT !.kind = "relogin"] IN
       IF ~ReloginAllowed
       THEN /\ tasks' = [tasks EXCEPT ![t] = Respond(task, 404,
                            "Relogin functionality is only available in dev mode.")]
            /\ UNCHANGED <<twikit_client, login_error_message>>
       ELSE IF AlreadyLoggedIn
       THEN /\ tasks' = [tasks EXCEPT ![t] = Respond(task, 303, "Already logged in")]
            /\ UNCHANGED <<twikit_client, login_error_message>>
       ELSE IF ~ManualLoginAllowed
       THEN /\ tasks' = [tasks EXCEPT ![t] =
                            Respond(task, 303, ReloginErrorParam(login_error_message))]
            /\ UNCHANGED <<twikit_client, login_error_message>>
       ELSE /\ login_error_message' = NONE
            /\ tasks' = [tasks EXCEPT ![t] = Await([task EXCEPT !.client = NewClient], "login")]
            /\ UNCHANGED twikit_client
    /\ Heap(logged_in_user, published)

\* Mutant: attempt_manual_login only logs the exception it caught.
ManualErrorMessageLoggedOnly(exc) == login_error_message

\* The error_msg the `except EOFError` / `except Exception` of attempt_manual_login stores.
ManualErrorMessage(exc) ==
    IF exc = "EOFError"
    THEN "Manual login failed: Interactive input (OTP/Password) likely required."
    ELSE "Manual login failed. Check logs for details."

\* attempt_manual_login returned False: relogin redirects with the stored message.
ReloginFailed(t, outcome, message) ==
    /\ login_error_message' = message
    /\ twikit_client' = ManualFailureStore
    /\ tasks' = [tasks EXCEPT ![t] = Respond(Got(@, outcome), 303, ReloginErrorParam(message))]
    /\ Heap(logged_in_user, published)

\* `await temp_client.login(...)` returns or raises.
ReloginLoginReturn(t, inp) ==
    /\ tasks[t].kind = "relogin" /\ tasks[t].pc = "login"
    /\ UNCHANGED <<ENV_TYPE, startup>>
    /\ \E outcome \in inp.logins :
         IF outcome = "ok"
         THEN /\ tasks' = [tasks EXCEPT ![t] = Await(Got(@, "ok"), "user")]
              /\ UNCHANGED <<twikit_client, login_error_message>>
              /\ Heap(logged_in_user, published)
         ELSE ReloginFailed(t, outcome, ManualErrorMessage(outcome))

\* Mutant: relogin leaves the last failure as it finds it after a successful login.
ReloginSuccessMessageKept == login_error_message

\* relogin: `login_error_message = None # Clear error on success`
ReloginSuccessMessage == NONE

\* `user_data = await temp_client.user()` returns or raises, to the end of relogin.
ReloginProbeReturn(t, inp) ==
    /\ tasks[t].kind = "relogin" /\ tasks[t].pc = "user"
    /\ UNCHANGED <<ENV_TYPE, startup>>
    /\ \/ \E user_data \in inp.probes :
            IF UserVerified(user_data)
            THEN /\ twikit_client' = tasks[t].client
                 /\ login_error_message' = ReloginSuccessMessage
                 /\ tasks' = [tasks EXCEPT ![t] =
                        Respond(Got(@, ProbeSeen(user_data)), 303, "Login Successful")]
                 /\ Heap(SetLoggedInUser(tasks[t].client, user_data),
                         [published EXCEPT ![tasks[t].client] = TRUE])
            ELSE ReloginFailed(t, ProbeSeen(user_data),
                               "Login succeeded but could not verify user data.")
       \/ \E exc \in inp.raises :
            ReloginFailed(t, exc, ManualErrorMessage(exc))

(* ---- search_tweets ---- *)

SampleTweet == Tweet(CreatedAt("string", TRUE, 2), "101", User("alice"), TRUE)
UnmappableTweet == Tweet(CreatedAt("string", TRUE, 2), "102", User("bob"), FALSE)

\* Mutant: the dates are checked before the dependency is resolved.
SearchAdmissionDatesFirst(task, start_date, end_date) ==
    IF SearchValidation(start_date, end_date) # "ok"
    THEN Respond(task, 400, SearchValidation(start_date, end_date))
    ELSE IF task.gate # "passed" THEN task
    ELSE Await(task, "search_tweet")

\* search_tweets once Depends(get_twikit_client) has run (`task` is its outcome):
\* the handler body, with its date checks, runs only if the dependency returned.
SearchAdmission(task, start_date, end_date) ==
    IF task.gate # "passed" THEN task
    ELSE IF SearchValidation(start_date, end_date) # "ok"
         THEN Respond(task, 400, SearchValidation(start_date, end_date))
    ELSE Await(task, "search_tweet")

\* Gate, date validation, then `await client.search_tweet(...)`.
SearchStart(t, inp) ==
    /\ Serving(t)
    /\ \E <<start_date, end_date>> \in inp.dates :
         LET task == Gate([tasks[t] EXCEPT !.start = start_date, !.end = end_date], "search") IN
         tasks' = [tasks EXCEPT ![t] = SearchAdmission(task, start_date, end_date)]
    /\ UNCHANGED <<ENV_TYPE, startup, twikit_client, login_error_message>>
    /\ Heap(logged_in_user, published)

\* `await client.search_tweet(...)` returns a batch or raises, to the end of the handler.
SearchReturn(t, inp) ==
    /\ tasks[t].kind = "search" /\ tasks[t].pc = "search_tweet"
    /\ \/ \E exc \in inp.errors :
            tasks' = [tasks EXCEPT ![t] =
               ProviderFailed(@, exc, 500, "Internal server error during tweet search")]
       \/ \E tweets \in inp.batches :
            LET acc == ProcessSearch(tweets, tasks[t].start, tasks[t].end) IN
            tasks' = [tasks EXCEPT ![t] =
               IF acc.raised
               THEN Respond(Got(@, "batch"), 500, "Internal server error during tweet search")
               ELSE Respond([Got(@, "batch") EXCEPT !.result = acc.response_data], 200, "")]
    /\ UNCHANGED <<ENV_TYPE, startup, twikit_client, login_error_message>>
    /\ Heap(logged_in_user, published)

(* ---- get_user_tweets -> get_user_id_from_input ---- *)

Identifiers == {"12345", "alice"}
\* user_identifier.isdigit()
IsDigit(user_identifier) == user_identifier = "12345"

\* What get_user_by_screen_name may do: a user with an id, None, a user without id, raise.
LookupOutcomes == {"user", "None", "user without id", "raises"}
\* Mutant: any user object counts as resolved.
LookupResolvedAnyUser(outcome) == outcome \in {"user", "user without id"}

\* `if user_info and hasattr(user_info, 'id')`
LookupResolved(outcome) == outcome = "user"

\* user_info.id of the user the lookup found.
LookupId == "67890"

\* Mutant: no exception text is taken for a rate limit.
LooksRateLimitedNever(exc) == FALSE

\* `"rate limit" in str(e).lower() or "429" in str(e)`
LooksRateLimited(exc) == exc \in {"Exception: Rate limit exceeded", "Exception: status 429"}

\* Gate, then get_user_id_from_input up to its await, or on to `await client.get_user_tweets`.
UserTweetsStart(t, inp) ==
    /\ Serving(t)
    /\ \E user_identifier \in inp.identifiers :
         LET task == Gate([tasks[t] EXCEPT !.ident = user_identifier], "user_tweets") IN
         tasks' = [tasks EXCEPT ![t] =
            IF task.gate # "passed" THEN task
            ELSE IF IsDigit(user_identifier)
                 THEN Await([task EXCEPT !.user_id = user_identifier], "get_user_tweets")
            ELSE Await(task, "get_user_by_screen_name")]
    /\ UNCHANGED <<ENV_TYPE, startup, twikit_client, login_error_message>>
    /\ Heap(logged_in_user, published)

\* `await client.get_user_by_screen_name(...)` inside get_user_id_from_input.
UserLookupReturn(t) ==
    /\ tasks[t].kind = "user_tweets" /\ tasks[t].pc = "get_user_by_screen_name"
    /\ \E outcome \in LookupOutcomes :
         tasks' = [tasks EXCEPT ![t] =
            IF LookupResolved(outcome)
            THEN Await([Got(@, outcome) EXCEPT !.user_id = LookupId], "get_user_tweets")
            ELSE Respond(Got(@, outcome), 404, "Could not resolve User ID for identifier")]
    /\ UNCHANGED <<ENV_TYPE, startup, twikit_client, login_error_message>>
    /\ Heap(logged_in_user, published)

\* `await client.get_user_tweets(...)` returns a batch or raises, to the end of the handler.
UserTweetsReturn(t, inp) ==
    /\ tasks[t].kind = "user_tweets" /\ tasks[t].pc = "get_user_tweets"
    /\ \/ \E exc \in inp.errors :
            tasks' = [tasks EXCEPT ![t] =
               IF LooksRateLimited(exc)
               THEN ProviderFailed(@, exc, 429, "Rate limit likely exceeded")
               ELSE ProviderFailed(@, exc, 500, "Internal server error fetching user tweets")]
       \/ \E tweets \in inp.batches :
            tasks' = [tasks EXCEPT ![t] =
               Respond([Got(@, "batch") EXCEPT
                           !.result = ProcessUserTweets(tweets).response_data], 200, "")]
    /\ UNCHANGED <<ENV_TYPE, startup, twikit_client, login_error_message>>
    /\ Heap(logged_in_user, published)

(* ---- get_trends ---- *)

TrendsStart(t) ==
    /\ Serving(t)
    /\ LET task == Gate(tasks[t], "trends") IN
       tasks' = [tasks EXCEPT ![t] =
          IF task.gate # "passed" THEN task ELSE Await(task, "get_trends")]
    /\ UNCHANGED <<ENV_TYPE, startup, twikit_client, login_error_message>>
    /\ Heap(logged_in_user, published)

\* `await client.get_trends(...)` returns or raises; the mapping may raise as well.
TrendsReturn(t, inp) ==
    /\ tasks[t].kind = "trends" /\ tasks[t].pc = "get_trends"
    /\ \/ \E exc \in inp.errors :
            tasks' = [tasks EXCEPT ![t] =
               ProviderFailed(@, exc, 500, "Internal server error fetching trends")]
       \/ \E mapped \in BOOLEAN :
            tasks' = [tasks EXCEPT ![t] =
               IF mapped THEN Respond(Got(@, "list"), 200, "")
               ELSE Respond(Got(@, "list"), 500, "Internal server error fetching trends")]
    /\ UNCHANGED <<ENV_TYPE, startup, twikit_client, login_error_message>>
    /\ Heap(logged_in_user, published)

(* ---- create_tweet ---- *)

\* getattr(created_tweet, 'id', 'unknown')
CreatedIds == {"201", "unknown"}

\* The text of a CreateTweetRequest body.
Texts == {"", "hello"}

\* CreateTweetRequest: `text: str = Field(..., min_length=1)`
TextValid(text) == text # ""

\* Mutant: the URL names the user of whatever client the store holds now.
SessionScreenNameOfStore(c) ==
    IF twikit_client # NoClient /\ logged_in_user[twikit_client].has_screen_name
    THEN logged_in_user[twikit_client].screen_name ELSE "unknown"

\* getattr(client._logged_in_user, 'screen_name', 'unknown')
SessionScreenName(c) ==
    IF logged_in_user[c].has_screen_name THEN logged_in_user[c].screen_name ELSE "unknown"

\* Gate, validation of the body, then `await client.create_tweet(text=...)`.
CreateTweetStart(t, inp) ==
    /\ Serving(t)
    /\ \E text \in inp.texts :
         LET task == Gate([tasks[t] EXCEPT !.text = text], "create_tweet") IN
         tasks' = [tasks EXCEPT ![t] =
            IF task.gate # "passed" THEN task
            ELSE IF ~TextValid(text) THEN Respond(task, 422, "text: min_length 1")
            ELSE Await(task, "create_tweet")]
    /\ UNCHANGED <<ENV_TYPE, startup, twikit_client, login_error_message>>
    /\ Heap(logged_in_user, published)

\* `await client.create_tweet(text=...)` returns the created record or raises.
CreateTweetReturn(t, inp) ==
    /\ tasks[t].kind = "create_tweet" /\ tasks[t].pc = "create_tweet"
    /\ \/ \E exc \in inp.errors :
            tasks' = [tasks EXCEPT ![t] =
               ProviderFailed(@, exc, 500, "Internal server error posting tweet")]
       \/ \E tweet_id \in inp.created :
            tasks' = [tasks EXCEPT ![t] =
               Respond([Got(@, tweet_id) EXCEPT !.result =
                          <<[tweet_id |-> tweet_id,
                             tweet_url |-> StatusUrl(SessionScreenName(tasks[t].client), tweet_id)]>>],
                       201, "")]
    /\ UNCHANGED <<ENV_TYPE, startup, twikit_client, login_error_message>>
    /\ Heap(logged_in_user, published)

(* ---- get_user_id_by_screen_name ---- *)

UserIdStart(t) ==
    /\ Serving(t)
    /\ LET task == Gate(tasks[t], "user_id") IN
       tasks' = [tasks EXCEPT ![t] =
          IF task.gate # "passed" THEN task ELSE Await(task, "get_user_by_screen_name")]
    /\ UNCHANGED <<ENV_TYPE, startup, twikit_client, login_error_message>>
    /\ Heap(logged_in_user, published)

UserIdReturn(t) ==
    /\ tasks[t].kind = "user_id" /\ tasks[t].pc = "get_user_by_screen_name"
    /\ \E outcome \in LookupOutcomes :
         tasks' = [tasks EXCEPT ![t] =
            IF LookupResolved(outcome) THEN Respond(Got(@, outcome), 200, "")
            ELSE Respond(Got(@, outcome), 404, "User not found")]
    /\ UNCHANGED <<ENV_TYPE, startup, twikit_client, login_error_message>>
    /\ Heap(logged_in_user, published)

(* ---- get_status, login_admin_ui: the two views of the last failure ---- *)

\* getattr(twikit_client._logged_in_user, 'screen_name', 'Unknown')
StoreScreenName ==
    IF logged_in_user[twikit_client].has_screen_name
    THEN logged_in_user[twikit_client].screen_name ELSE "Unknown"

\* The status_info of get_status; a key the code leaves out is NONE.
StatusInfo ==
    IF ClientReady
    THEN [view |-> "status", env_mode |-> ENV_TYPE, status |-> "OK", ready |-> TRUE,
          logged_in_user |-> StoreScreenName, last_error |-> NONE, detail |-> NONE]
    ELSE [view |-> "status", env_mode |-> ENV_TYPE, status |-> "Error", ready |-> FALSE,
          logged_in_user |-> NONE,
          last_error |-> IF ENV_TYPE # "dev" THEN NONE
                         ELSE IF Truthy(login_error_message) THEN login_error_message
                         ELSE "Client not initialized or login failed.",
          detail |-> IF ENV_TYPE = "dev" THEN NONE
                     ELSE "Client not initialized. Check TWITTER_AUTH_TOKEN."]

\* The template context of login_admin_ui.
LoginAdminContext ==
    [view |-> "login_admin", env_mode |-> ENV_TYPE,
     status |-> IF ClientReady THEN "OK" ELSE "Error", ready |-> ClientReady,
     logged_in_user |-> IF ClientReady THEN StoreScreenName ELSE NONE,
     last_error |-> login_error_message, detail |-> NONE]

\* GET /status: no dependency, no await.
GetStatus(t) ==
    /\ Serving(t)
    /\ tasks' = [tasks EXCEPT ![t] =
          Respond([tasks[t] EXCEPT !.kind = "status", !.result = <<StatusInfo>>], 200, "")]
    /\ UNCHANGED <<ENV_TYPE, startup, twikit_client, login_error_message>>
    /\ Heap(logged_in_user, published)

\* GET /login-admin: dev mode only; no dependency, no await.
LoginAdminUi(t) ==
    /\ Serving(t)
    /\ LET task == [tasks[t] EXCEPT !.kind = "login_admin"] IN
       tasks' = [tasks EXCEPT ![t] =
          IF ENV_TYPE # "dev"
          THEN Respond(task, 404, "Login admin UI is only available in dev mode.")
          ELSE Respond([task EXCEPT !.result = <<LoginAdminContext>>], 200, "")]
    /\ UNCHANGED <<ENV_TYPE, startup, twikit_client, login_error_message>>
    /\ Heap(logged_in_user, published)

\* The response has been sent; the handler's locals are gone.
Finish(t) ==
    /\ tasks[t].pc = "done"
    /\ tasks' = [tasks EXCEPT ![t] = IdleTask]
    /\ UNCHANGED <<ENV_TYPE, startup, twikit_client, login_error_message>>
    /\ Heap(logged_in_user, published)

-----------------------------------------------------------------------------
(* The service *)

NormIdle ==
    [pc |-> "off", op |-> "", start |-> AbsentDate, end |-> AbsentDate, tweets |-> <<>>,
     response_data |-> <<>>, filtered_count |-> 0, raised |-> FALSE]
MediaIdle ==
    [pc |-> "off", variants |-> <<>>, extended_is_dict |-> FALSE, extended_media |-> <<>>,
     media |-> <<>>, media_urls |-> <<>>]

Init ==
    /\ ENV_TYPE \in {"dev", "prod"}
    /\ twikit_client = NoClient
    /\ login_error_message = NONE
    /\ logged_in_user = [c \in ClientIds |-> NoUser]
    /\ published = [c \in ClientIds |-> FALSE]
    /\ startup = StartupIdle
    /\ tasks = [t \in TaskIds |-> IdleTask]
    /\ norm = NormIdle
    /\ media = MediaIdle

\* What the requests and the provider are let to carry: few values where the
\* interleaving of handlers is explored, many where one handler runs at a time.
FewInputs ==
    [dates |-> {<<AbsentDate, AbsentDate>>, <<Date(2), Date(1)>>},
     batches |-> {<<SampleTweet>>},
     created |-> {"201"},
     texts |-> Texts,
     logins |-> {"ok", "Exception"},
     probes |-> {NoUser, UserWithoutHandle, User("alice")},
     raises |-> {"Exception"},
     errors |-> {"Exception"},
     identifiers |-> {"alice"}]
ManyInputs ==
    [dates |-> DateArgs \X DateArgs,
     batches |-> {<<>>, <<SampleTweet>>, <<UnmappableTweet>>, <<SampleTweet, UnmappableTweet>>},
     created |-> CreatedIds,
     texts |-> Texts,
     logins |-> LoginOutcomes,
     probes |-> ProbeReturns,
     raises |-> ProbeRaises,
     errors |-> ProviderRaises,
     identifiers |-> Identifiers]

Startup(inp) ==
    StartupBegin \/ StartupLoginReturn(inp) \/ StartupProbeReturn(inp) \/ StartupYield

Request(t, inp) ==
    \/ ReloginStart(t) \/ ReloginLoginReturn(t, inp) \/ ReloginProbeReturn(t, inp)
    \/ SearchStart(t, inp) \/ SearchReturn(t, inp)
    \/ UserTweetsStart(t, inp) \/ UserLookupReturn(t) \/ UserTweetsReturn(t, inp)
    \/ TrendsStart(t) \/ TrendsReturn(t, inp)
    \/ CreateTweetStart(t, inp) \/ CreateTweetReturn(t, inp)
    \/ UserIdStart(t) \/ UserIdReturn(t)
    \/ GetStatus(t) \/ LoginAdminUi(t)
    \/ Finish(t)

\* The service with up to MaxReq handlers interleaved at their awaits.
Next ==
    /\ Startup(ManyInputs) \/ \E t \in TaskIds : Request(t, FewInputs)
    /\ UNCHANGED <<norm, media>>

Spec == Init /\ [][Next]_vars

-----------------------------------------------------------------------------
(* The normaliser on its own: one provider batch through one handler's loop *)

\* The records a batch is drawn from: every created_at with a fixed id and author
\* (mappable or not), every id and author with a fixed created_at.
NormTweets ==
    {Tweet(ca, "101", User("alice"), TRUE) : ca \in CreatedAts}
    \cup {Tweet(CreatedAtGarbage, "101", User("alice"), FALSE),
          Tweet(CreatedAt("string", TRUE, 2), "102", User("bob"), FALSE)}
    \cup {Tweet(CreatedAt("string", TRUE, 2), id, u, TRUE) :
             id \in TweetIds, u \in TweetUsers \ {User("bob")}}

\* The date ranges that pass SearchValidation.
NormRanges ==
    {r \in (DateArgs \X DateArgs) : SearchValidation(r[1], r[2]) = "ok"}

InitNorm ==
    /\ ENV_TYPE = "dev"
    /\ twikit_client = NoClient
    /\ login_error_message = NONE
    /\ logged_in_user = [c \in ClientIds |-> NoUser]
    /\ published = [c \in ClientIds |-> FALSE]
    /\ startup = StartupServing
    /\ tasks = [t \in TaskIds |-> IdleTask]
    /\ media = MediaIdle
    /\ \/ \E r \in NormRanges :
            norm = [NormIdle EXCEPT !.pc = "input", !.op = "search",
                                    !.start = r[1], !.end = r[2]]
       \/ norm = [NormIdle EXCEPT !.pc = "input", !.op = "user_tweets"]

\* The provider's result holds one more record.
NormYield ==
    /\ norm.pc = "input" /\ Len(norm.tweets) < MaxTweets
    /\ \E tweet \in NormTweets : norm' = [norm EXCEPT !.tweets = Append(@, tweet)]

\* search_tweets from `response_data = []` to its return or its `except`.
NormSearch ==
    /\ norm.pc = "input" /\ norm.op = "search"
    /\ LET acc == ProcessSearch(norm.tweets, norm.start, norm.end) IN
       norm' = [norm EXCEPT !.pc = "done", !.response_data = acc.response_data,
                            !.filtered_count = acc.filtered_count, !.raised = acc.raised]

\* get_user_tweets from `response_data = []` to its return.
NormUserTweets ==
    /\ norm.pc = "input" /\ norm.op = "user_tweets"
    /\ LET acc == ProcessUserTweets(norm.tweets) IN
       norm' = [norm EXCEPT !.pc = "done", !.response_data = acc.response_data,
                            !.filtered_count = acc.filtered_count, !.raised = acc.raised]

NextNorm ==
    /\ NormYield \/ NormSearch \/ NormUserTweets
    /\ UNCHANGED <<sessionVars, media>>

SpecNorm == InitNorm /\ [][NextNorm]_vars

-----------------------------------------------------------------------------
(* Variant selection on its own: the variants of one video media item *)

\* The URL of the variant at position i (every variant has its own).
UrlAt(i) == "https://video.twimg.com/" \o ToString(i)

\* The variants an item is drawn from: MP4 with a URL and every bitrate, MP4
\* without URL, and a non-MP4 playlist with a URL.
VariantsAt(i) ==
    {Variant("video/mp4", b, UrlAt(i)) :
        b \in {NoBitrate, NoneBitrate, GarbageBitrate} \cup {Bitrate(n) : n \in Bitrates}}
    \cup {Variant("video/mp4", Bitrate(n), NONE) : n \in {0, 900}}
    \cup {Variant("application/x-mpegURL", b, UrlAt(i)) : b \in {NoBitrate, Bitrate(900)}}

InitMedia ==
    /\ ENV_TYPE = "dev"
    /\ twikit_client = NoClient
    /\ login_error_message = NONE
    /\ logged_in_user = [c \in ClientIds |-> NoUser]
    /\ published = [c \in ClientIds |-> FALSE]
    /\ startup = StartupServing
    /\ tasks = [t \in TaskIds |-> IdleTask]
    /\ norm = NormIdle
    /\ \/ media = [MediaIdle EXCEPT !.pc = "input"]
       \/ \E d \in BOOLEAN : media = [MediaIdle EXCEPT !.pc = "record", !.extended_is_dict = d]

\* video_info['variants'] holds one more variant.
MediaYield ==
    /\ media.pc = "input" /\ Len(media.variants) < MaxVariants
    /\ \E v \in VariantsAt(Len(media.variants) + 1) :
         media' = [media EXCEPT !.variants = Append(@, v)]

\* The `elif media_type == 'video'` branch for this item.
MediaSelect ==
    /\ media.pc = "input"
    /\ media' = [media EXCEPT !.pc = "done", !.media_urls = VideoUrls(media.variants)]

\* The media items a record's lists are drawn from; two of them share a URL.
VideoWithMp4 ==
    Video(<<Variant("video/mp4", Bitrate(300), "https://video.twimg.com/lo.mp4"),
            Variant("video/mp4", Bitrate(900), "https://video.twimg.com/hi.mp4")>>)
VideoWithoutMp4 ==
    Video(<<Variant("application/x-mpegURL", NoBitrate, "https://video.twimg.com/pl.m3u8")>>)
MediaItems ==
    {Photo("https://pbs.twimg.com/a.jpg"), Photo("https://pbs.twimg.com/b.jpg"), Photo(NONE),
     AnimatedGif("https://pbs.twimg.com/a.jpg"), VideoWithMp4, VideoWithoutMp4, OtherItem}

\* tweet.extended_entities['media'] holds one more item.
ExtendedYield ==
    /\ media.pc = "record" /\ Len(media.extended_media) < MaxMedia
    /\ \E item \in MediaItems :
         media' = [media EXCEPT !.extended_media = Append(@, item)]

\* tweet.media holds one more item.
PrimaryYield ==
    /\ media.pc = "record" /\ Len(media.media) < MaxMedia
    /\ \E item \in MediaItems : media' = [media EXCEPT !.media = Append(@, item)]

\* The media extraction of one record, from `media_urls = []` on.
MediaExtract ==
    /\ media.pc = "record"
    /\ media' = [media EXCEPT !.pc = "extracted",
                    !.media_urls = MediaUrls(media.extended_is_dict, media.extended_media,
                                             media.media)]

NextMedia ==
    /\ MediaYield \/ MediaSelect \/ ExtendedYield \/ PrimaryYield \/ MediaExtract
    /\ UNCHANGED <<sessionVars, norm>>

SpecMedia == InitMedia /\ [][NextMedia]_vars

\* The service handling one request at a time, over all request parameters.
NextOne ==
    /\ Startup(ManyInputs) \/ Request(1, ManyInputs)
    /\ UNCHANGED <<norm, media>>

SpecOne == Init /\ [][NextOne]_vars

-----------------------------------------------------------------------------
(* Properties *)

InFlight(t) == tasks[t].pc \notin {"idle", "done"}
Bootstrapping(t) == tasks[t].kind = "relogin" /\ tasks[t].pc \in {"login", "user"}
StartupRunning == startup.pc \in {"start", "login", "probe"}

\* C1: in both modes, a bootstrap attempt that ends in failure (the startup
\* initialize_twikit_client, or a manual login run by relogin) leaves
\* twikit_client empty at its end, and every protected request (search, user
\* timeline, trends, create post, identity lookup) that arrives while
\* twikit_client is empty ends at once with HTTP 503 and no provider call.
C1_FailedBootstrapEmptyStoreGateRejects ==
    [][ /\ (StartupRunning /\ startup'.pc = "done" /\ startup'.outcome = "failed")
            => twikit_client' = NoClient
        /\ \A t \in TaskIds :
            /\ (Bootstrapping(t) /\ tasks'[t].pc = "done" /\ tasks'[t].detail # "Login Successful")
                 => twikit_client' = NoClient
            /\ (tasks[t].pc = "idle" /\ tasks'[t].kind \in Protected /\ twikit_client = NoClient)
                 => /\ tasks'[t].pc = "done"
                    /\ tasks'[t].status = 503
                    /\ tasks'[t].calls = <<>>
      ]_vars

C1_Witness ==
    /\ twikit_client = NoClient
    /\ tasks[1].kind = "relogin" /\ tasks[1].pc = "done"
    /\ tasks[1].detail = "Manual login failed. Check logs for details."
    /\ tasks[2].kind = "create_tweet" /\ tasks[2].status = 503

\* C2: no provider call is issued for a protected request unless the Gate check
\* of that request found a client with a verified identity in twikit_client:
\* a request with a provider call on record passed the Gate, and while it runs
\* it holds a published client whose _logged_in_user is a user with a handle.
C2_NoProviderCallWithoutGate ==
    \A t \in TaskIds :
        (tasks[t].kind \in Protected /\ tasks[t].calls # <<>>) =>
            /\ tasks[t].gate = "passed"
            /\ InFlight(t) =>
                 /\ tasks[t].client # NoClient
                 /\ published[tasks[t].client]
                 /\ UserVerified(logged_in_user[tasks[t].client])

C2_Witness ==
    \E t \in TaskIds :
        /\ tasks[t].kind = "create_tweet" /\ tasks[t].pc = "create_tweet"
        /\ tasks[t].calls = <<"create_tweet">>

\* C3: at most one bootstrap is in flight at any time: of two relogin requests
\* handled concurrently on an empty store only one is inside the credential
\* login (awaiting login or the identity probe).
C3_AtMostOneBootstrapInFlight ==
    Cardinality({t \in TaskIds : Bootstrapping(t)}) <= 1

\* C4: twikit_client is never observed holding a partial session: whenever it is
\* non-empty it is a client whose _logged_in_user is a user with a handle, and
\* the _logged_in_user of a client that has been published is never written
\* again (the store is only replaced or cleared).
StoreComplete ==
    twikit_client # NoClient =>
        /\ published[twikit_client]
        /\ UserVerified(logged_in_user[twikit_client])

C4_StoreNeverPartial ==
    [][ /\ StoreComplete'
        /\ \A c \in ClientIds :
             (published[c] /\ published'[c]) => logged_in_user'[c] = logged_in_user[c]
      ]_vars

C4_Witness ==
    /\ twikit_client # NoClient
    /\ UserVerified(logged_in_user[twikit_client])
    /\ \E t \in TaskIds : tasks[t].kind = "relogin" /\ tasks[t].detail = "Login Successful"
    /\ \E t \in TaskIds : Bootstrapping(t)

\* C5: a relogin request that arrives while twikit_client holds a valid session
\* does not run the Bootstrapper: it ends at once with no provider login or
\* probe, twikit_client, the client object and login_error_message are left as
\* they were, and (relogin being a dev-mode path) its outcome in dev mode is
\* "Already logged in".
C5_ReloginWhileActive ==
    [][ \A t \in TaskIds :
          (tasks[t].pc = "idle" /\ tasks'[t].kind = "relogin" /\ ClientReady) =>
              /\ tasks'[t].pc = "done"
              /\ tasks'[t].calls = <<>>
              /\ ENV_TYPE = "dev" =>
                   (tasks'[t].status = 303 /\ tasks'[t].detail = "Already logged in")
              /\ twikit_client' = twikit_client
              /\ logged_in_user' = logged_in_user
              /\ login_error_message' = login_error_message
      ]_vars

C5_Witness ==
    /\ ENV_TYPE = "dev" /\ ClientReady
    /\ \E t \in TaskIds : tasks[t].kind = "relogin" /\ tasks[t].detail = "Already logged in"

\* C6: at the end of a cookie-mode bootstrap, a blob that is a one-element list
\* of a non-empty mapping has put a session in twikit_client if and only if the
\* identity probe returned a user with a handle; a blob that is a bare mapping
\* has ended as a configuration error with twikit_client empty and the
\* identity probe never called.
C6_CookieBootstrap ==
    (ENV_TYPE = "prod" /\ startup.pc = "done") =>
        /\ startup.blob = BlobCookies =>
             (twikit_client # NoClient <=> startup.probe = "User")
        /\ startup.blob = BlobMapping =>
             /\ twikit_client = NoClient
             /\ startup.outcome = "failed"
             /\ startup.diag = "structure is different"
             /\ startup.calls = <<>>

C6_Witness ==
    /\ ENV_TYPE = "prod" /\ startup.pc = "done"
    /\ startup.blob = BlobCookies /\ startup.probe = "User"
    /\ twikit_client # NoClient

\* C7: a search request with both dates present and start after end never
\* reaches the provider: it is rejected with no provider call, and, having
\* passed the Gate, with HTTP 400 "Start date cannot be after end date".
StartAfterEnd(task) ==
    task.start.p = "date" /\ task.end.p = "date" /\ task.start.d > task.end.d

C7_BadRangeRejectedBeforeProvider ==
    \A t \in TaskIds :
        (tasks[t].kind = "search" /\ StartAfterEnd(tasks[t])) =>
            /\ tasks[t].pc = "done"
            /\ tasks[t].calls = <<>>
            /\ tasks[t].status \in {400, 503}
            /\ tasks[t].gate = "passed" =>
                 /\ tasks[t].status = 400
                 /\ tasks[t].detail = "Start date cannot be after end date"

C7_Witness ==
    /\ tasks[1].kind = "search" /\ tasks[1].gate = "passed"
    /\ tasks[1].start = Date(2) /\ tasks[1].end = Date(1)
    /\ tasks[1].status = 400

\* C8: in the result of a search, a record with a parsable timestamp is left
\* out exactly when its date is strictly before start or strictly after end;
\* a record dated on start or on end is kept and an absent bound excludes
\* nothing.
KeptIndices == {norm.response_data[k].index : k \in 1..Len(norm.response_data)}

C8_DateFilterInclusive ==
    (norm.pc = "done" /\ norm.op = "search" /\ ~norm.raised) =>
        \A i \in 1..Len(norm.tweets) :
            CreatedAtParses(norm.tweets[i]) =>
                (i \notin KeptIndices <=>
                    \/ (norm.start.p = "date" /\ norm.tweets[i].created_at.date < norm.start.d)
                    \/ (norm.end.p = "date" /\ norm.tweets[i].created_at.date > norm.end.d))

C8_Witness ==
    /\ norm.pc = "done" /\ norm.op = "search" /\ ~norm.raised
    /\ norm.start = Date(2) /\ norm.end = Date(2)
    /\ Len(norm.tweets) = 2
    /\ norm.tweets[1].created_at = CreatedAt("string", TRUE, 2)
    /\ norm.tweets[2].created_at = CreatedAt("string", TRUE, 3)
    /\ KeptIndices = {1}

\* C9: the URL selected for a video item is that of the MP4 variant (with a URL)
\* of the highest bitrate, the latest of them when several share it; variants
\* that are not MP4 play no part; an item with an MP4 variant of non-negative
\* bitrate does get a URL; for the bitrates [300, 900, 900, 500] the URL is that
\* of the second 900 variant.
Candidates == {i \in 1..Len(media.variants) :
                 IsMp4(media.variants[i]) /\ Truthy(media.variants[i].url)}
BitrateAt(i) == CurrentBitrate(media.variants[i])
IsExample ==
    /\ Len(media.variants) = 4
    /\ \A i \in 1..4 : media.variants[i].content_type = "video/mp4"
                        /\ media.variants[i].url = UrlAt(i)
    /\ <<media.variants[1].bitrate, media.variants[2].bitrate,
         media.variants[3].bitrate, media.variants[4].bitrate>>
         = <<Bitrate(300), Bitrate(900), Bitrate(900), Bitrate(500)>>

C9_HighestBitrateLastWins ==
    media.pc = "done" =>
        /\ Len(media.media_urls) <= 1
        /\ media.media_urls # <<>> =>
             \E i \in Candidates :
                /\ media.media_urls = <<media.variants[i].url>>
                /\ \A j \in Candidates :
                     /\ BitrateAt(j) <= BitrateAt(i)
                     /\ BitrateAt(j) = BitrateAt(i) => j <= i
        /\ (\E i \in Candidates : BitrateAt(i) >= 0) => media.media_urls # <<>>
        /\ IsExample => media.media_urls = <<UrlAt(3)>>

C9_Witness ==
    media.pc = "done" /\ IsExample /\ media.media_urls = <<UrlAt(3)>>

\* C10: every normalised post of search and of the user timeline has a
\* tweet_url if and only if its id and its author's screen name both resolved,
\* and then the URL is https://twitter.com/<screen_name>/status/<id> of that
\* record's own screen name and id.
C10_CanonicalUrl ==
    (norm.pc = "done" /\ ~norm.raised) =>
        \A k \in 1..Len(norm.response_data) :
            LET post == norm.response_data[k]
                tweet == norm.tweets[post.index] IN
            /\ post.id = tweet.id
            /\ post.screen_name = ScreenNameOf(tweet.user)
            /\ post.tweet_url # NoUrl <=> (Truthy(post.id) /\ Truthy(post.screen_name))
            /\ post.tweet_url # NoUrl =>
                 post.tweet_url = <<"https://twitter.com", post.screen_name, "status", post.id>>

C10_Witness ==
    /\ norm.pc = "done" /\ norm.op = "user_tweets"
    /\ Len(norm.response_data) = 2
    /\ norm.response_data[1].tweet_url = <<"https://twitter.com", "alice", "status", "101">>
    /\ norm.response_data[2].id = "101"
    /\ norm.response_data[2].has_user
    /\ norm.response_data[2].tweet_url = NoUrl

-----------------------------------------------------------------------------
(* Properties of the bootstrap outcomes and of the request error paths *)

Count(calls, call) == Cardinality({i \in 1..Len(calls) : calls[i] = call})
CaughtExceptions == {"EOFError", "Exception", "NotFound"}

\* C11: in dev (credential) mode, an exception raised by login() or by the
\* identity probe user(), EOFError included, ends the bootstrap attempt (the
\* startup one or a manual one) in that very step: the attempt is over and has
\* failed, login_error_message holds a message, twikit_client is empty, and
\* login() was called exactly once by the attempt.
C11_CredentialExceptionTerminal ==
    [][ /\ (ENV_TYPE = "dev" /\ startup.pc \in {"login", "probe"}
                /\ startup'.got \in CaughtExceptions) =>
              /\ startup'.pc = "done" /\ startup'.outcome = "failed"
              /\ Truthy(login_error_message')
              /\ twikit_client' = NoClient
              /\ Count(startup'.calls, "login") = 1
        /\ \A t \in TaskIds :
             (Bootstrapping(t) /\ tasks'[t].got \in CaughtExceptions) =>
                /\ tasks'[t].pc = "done"
                /\ tasks'[t].detail # "Login Successful"
                /\ Truthy(login_error_message')
                /\ twikit_client' = NoClient
                /\ Count(tasks'[t].calls, "login") = 1
      ]_vars

C11_Witness ==
    /\ ENV_TYPE = "dev" /\ twikit_client = NoClient
    /\ tasks[1].kind = "relogin" /\ tasks[1].pc = "done"
    /\ tasks[1].got = "EOFError" /\ tasks[1].calls = <<"login">>
    /\ login_error_message =
         "Manual login failed: Interactive input (OTP/Password) likely required."

\* C12: a recorded failure stays in login_error_message until a bootstrap
\* attempt succeeds: the message is only ever cleared by a step that puts a
\* session in twikit_client, and in dev mode every login-admin page rendered
\* while twikit_client is empty (the last finished attempt having failed) shows
\* a last_error, also while a new attempt is in flight.
C12_FailureRetainedUntilSuccess ==
    [][ /\ (Truthy(login_error_message) /\ ~Truthy(login_error_message')) => ClientReady'
        /\ \A t \in TaskIds :
             (ENV_TYPE = "dev" /\ ~ClientReady
                 /\ tasks[t].pc = "idle" /\ tasks'[t].kind = "login_admin") =>
                Truthy(tasks'[t].result[1].last_error)
      ]_vars

\* C13 as claimed: when the startup bootstrap is over, in either mode, exactly
\* one of "twikit_client holds a session" and "login_error_message holds a
\* failure reason" is true.
C13_StartupSessionXorFailureRecorded ==
    startup.pc = "done" => (ClientReady <=> ~Truthy(login_error_message))

\* C13 as amended: the startup bootstrap runs once and before any request is
\* handled; when it is over exactly one of "twikit_client holds a session" and
\* "the bootstrap failed" is true, and a failure is recorded in
\* login_error_message in dev mode, whereas in prod mode it is only logged and
\* login_error_message stays empty.
C13_StartupOnceSessionOrFailure ==
    /\ [](startup.pc # "serving" => \A t \in TaskIds : tasks[t] = IdleTask)
    /\ [](startup.pc = "done" =>
            /\ ClientReady <=> startup.outcome = "session"
            /\ ~ClientReady <=> (startup.outcome = "failed" /\ Truthy(startup.diag))
            /\ Count(startup.calls, "login") <= 1 /\ Count(startup.calls, "user") <= 1
            /\ ENV_TYPE = "dev" => (ClientReady <=> ~Truthy(login_error_message))
            /\ ENV_TYPE = "prod" => login_error_message = NONE)
    /\ [][startup.pc \in {"done", "serving"} => startup'.pc = "serving"]_vars

C13_Witness ==
    /\ ENV_TYPE = "prod" /\ startup.pc = "done"
    /\ startup.outcome = "failed" /\ startup.diag = "404: invalid cookies or API change"
    /\ twikit_client = NoClient /\ login_error_message = NONE

\* C14: in the user timeline operation an all-digit identifier is the user id
\* with no lookup; any other identifier is looked up by handle exactly once,
\* first; a lookup that returns no user, a user without id, or raises ends the
\* request with HTTP 404 (not 503, not 500) and no timeline fetch; and nothing
\* else ends it with 404.
LookupFailures == {"None", "user without id", "raises"}

C15_GateHintByMode ==
    \A t \in TaskIds :
        tasks[t].gate = "rejected" =>
            /\ tasks[t].status = 503
            /\ ENV_TYPE = "dev" <=> tasks[t].detail =
                 "Twikit client not available or not logged in. Try logging in via /login-admin."
            /\ ENV_TYPE = "prod" <=> tasks[t].detail =
                 "Twikit client not available. Check server logs and ensure TWITTER_AUTH_TOKEN is set correctly for prod mode."

C15_Witness ==
    /\ ENV_TYPE = "prod"
    /\ tasks[1].kind = "trends" /\ tasks[1].gate = "rejected" /\ tasks[1].status = 503
    /\ tasks[1].detail =
         "Twikit client not available. Check server logs and ensure TWITTER_AUTH_TOKEN is set correctly for prod mode."

\* C16: a protected request calls each provider operation at most once, and
\* the step in which a provider call fails (raises, or for the lookup finds no
\* id) ends the request with an error status, with no provider call added, no
\* login started and twikit_client and login_error_message untouched.
ProviderFailures == ProviderRaises \cup LookupFailures

C16_NoProviderRetry ==
    [][ \A t \in TaskIds :
          tasks'[t].kind \in Protected =>
              /\ \A i, j \in 1..Len(tasks'[t].calls) :
                    tasks'[t].calls[i] = tasks'[t].calls[j] => i = j
              /\ (InFlight(t) /\ tasks'[t] # tasks[t] /\ tasks'[t].got \in ProviderFailures) =>
                    /\ tasks'[t].pc = "done"
                    /\ tasks'[t].status \in {404, 429, 500}
                    /\ tasks'[t].calls = tasks[t].calls
                    /\ Count(tasks'[t].calls, "login") = 0
                    /\ twikit_client' = twikit_client
                    /\ login_error_message' = login_error_message
      ]_vars

C16_Witness ==
    /\ tasks[1].kind = "search" /\ tasks[1].pc = "done"
    /\ tasks[1].got = "Exception" /\ tasks[1].status = 500
    /\ tasks[1].calls = <<"search_tweet">>

\* C17: in search and in the user timeline a record that cannot be normalised
\* (timestamp that does not parse, record that does not map to TweetData) is
\* the only one left out on its account: the handler does not fail, and every
\* record that parses, maps and (in search) lies in the date range is returned,
\* in provider order.
Returnable(i) ==
    /\ norm.tweets[i].mappable
    /\ norm.op = "search" =>
         /\ HasCreatedAt(norm.tweets[i]) /\ CreatedAtParses(norm.tweets[i])
         /\ ~(norm.start.p = "date" /\ norm.tweets[i].created_at.date < norm.start.d)
         /\ ~(norm.end.p = "date" /\ norm.tweets[i].created_at.date > norm.end.d)

C17_PerRecordErrorsSkipped ==
    norm.pc = "done" =>
        /\ ~norm.raised
        /\ \A i \in 1..Len(norm.tweets) : Returnable(i) => i \in KeptIndices
        /\ \A k, l \in 1..Len(norm.response_data) :
              k < l => norm.response_data[k].index < norm.response_data[l].index

\* C18: in search, user timeline, trends and create post an exception raised
\* by the provider call ends the request with HTTP 500, but with HTTP 429 in
\* the user timeline when its text contains "rate limit" (any case) or "429";
\* a Gate rejection stays 503, a date validation error stays 400, an empty
\* text stays 422 and an unresolved identifier stays 404.
RateLimitTexts == {"Exception: Rate limit exceeded", "Exception: status 429"}

C19_ReloginDevOnly ==
    [][ \A t \in TaskIds :
          (ENV_TYPE = "prod" /\ tasks[t].pc = "idle" /\ tasks'[t].kind = "relogin") =>
              /\ tasks'[t].pc = "done"
              /\ tasks'[t].status = 404
              /\ tasks'[t].calls = <<>>
              /\ twikit_client' = twikit_client
              /\ logged_in_user' = logged_in_user
              /\ login_error_message' = login_error_message
      ]_vars

C19_Witness ==
    /\ ENV_TYPE = "prod" /\ twikit_client = NoClient
    /\ tasks[1].kind = "relogin" /\ tasks[1].pc = "done" /\ tasks[1].status = 404
    /\ tasks[1].calls = <<>>

\* C20: a relogin request that ran the credential bootstrap tells its caller
\* how it went: it answers "Login Successful" exactly when its own login()
\* returned and its own probe returned a user with a handle, and then
\* twikit_client is its client and login_error_message is empty; otherwise it
\* answers with a non-empty error message, the one login_error_message holds.
C20_ReloginReportsOutcome ==
    [][ \A t \in TaskIds :
          (Bootstrapping(t) /\ tasks'[t].pc = "done") =>
              /\ tasks'[t].status = 303
              /\ tasks'[t].detail = "Login Successful" <=>
                   (tasks[t].calls = <<"login", "user">> /\ tasks'[t].got = "User")
              /\ tasks'[t].detail = "Login Successful" =>
                   /\ login_error_message' = NONE
                   /\ twikit_client' = tasks[t].client
                   /\ UserVerified(logged_in_user'[twikit_client'])
              /\ tasks'[t].detail # "Login Successful" =>
                   /\ Truthy(tasks'[t].detail)
                   /\ tasks'[t].detail = login_error_message'
      ]_vars

C20_Witness ==
    /\ login_error_message = NONE /\ ClientReady
    /\ tasks[1].kind = "relogin" /\ tasks[1].detail = "Login Successful"
    /\ tasks[2].kind = "relogin" /\ tasks[2].pc = "done"
    /\ tasks[2].detail = "Manual login failed. Check logs for details."

-----------------------------------------------------------------------------
(* Properties of post creation, of the cookie bootstrap diagnostics and of
   the order of the checks of a search *)

\* C21: a create-post request that gets its record back from the provider
\* answers 201 with the id of that record and with the URL
\* https://twitter.com/<screen_name>/status/<id>, <screen_name> being that of
\* the client the Gate handed to this request; create_tweet of the provider is
\* called exactly once, with the request's text, and never with an empty text.
C21_CreatePostResult ==
    [][ \A t \in TaskIds :
          /\ (tasks'[t].kind = "create_tweet" /\ tasks'[t].text = "") =>
                tasks'[t].calls = <<>>
          /\ (tasks[t].kind = "create_tweet" /\ tasks[t].pc = "create_tweet"
                /\ tasks'[t].pc = "done") =>
                /\ tasks'[t].calls = <<"create_tweet">>
                /\ tasks'[t].text = "hello"
                /\ tasks'[t].got \in {"201", "unknown"} =>
                     /\ tasks'[t].status = 201
                     /\ tasks'[t].result =
                          <<[tweet_id |-> tasks'[t].got,
                             tweet_url |-> <<"https://twitter.com",
                                             logged_in_user[tasks[t].client].screen_name,
                                             "status", tasks'[t].got>>]>>
                /\ tasks'[t].got \notin {"201", "unknown"} =>
                     (tasks'[t].status = 500 /\ tasks'[t].result = <<>>)
      ]_vars

C21_Witness ==
    /\ tasks[2].kind = "create_tweet" /\ tasks[2].status = 201
    /\ tasks[2].result =
         <<[tweet_id |-> "201",
            tweet_url |-> <<"https://twitter.com", "alice", "status", "201">>]>>
    /\ twikit_client = NoClient

\* C22: a prod startup whose cookie blob is unset, not JSON, not a one-element
\* list, a list of something that is no mapping, or a list of an empty mapping
\* is over as failed with its configuration error logged, twikit_client empty,
\* and neither the Client constructor nor the identity probe called.
C22_CookieConfigurationErrors ==
    (ENV_TYPE = "prod" /\ startup.pc = "done"
        /\ startup.blob \in {BlobUnset, BlobMalformed, BlobMapping, BlobEmptyList,
                              BlobTwoMappings, BlobListOfScalar, BlobListOfEmpty}) =>
        /\ startup.outcome = "failed"
        /\ startup.diag \in {"env not set", "invalid JSON", "structure is different",
                             "no cookies found"}
        /\ twikit_client = NoClient
        /\ startup.calls = <<>>
        /\ startup.got = ""

C22_Witness ==
    /\ ENV_TYPE = "prod" /\ startup.pc = "done" /\ startup.blob = BlobListOfEmpty
    /\ startup.diag = "no cookies found" /\ twikit_client = NoClient

\* C23: a prod startup whose identity probe raised NotFound is over with
\* twikit_client empty and the "404: invalid cookies or API change" line
\* logged, and only such a startup logs that line; a probe that returned None
\* or a user without screen name logs "failed to retrieve valid user data",
\* and a probe that raised anything else logs "failed to initialize/verify",
\* both with twikit_client empty.
C23_NotFoundDiagnostic ==
    (ENV_TYPE = "prod" /\ startup.pc = "done") =>
        /\ startup.diag = "404: invalid cookies or API change" <=> startup.probe = "NotFound"
        /\ startup.probe = "NotFound" => twikit_client = NoClient
        /\ startup.probe \in {"None", "User without screen_name"} =>
             /\ twikit_client = NoClient
             /\ startup.diag = "failed to retrieve valid user data"
        /\ startup.probe \in {"EOFError", "Exception"} =>
             /\ twikit_client = NoClient
             /\ startup.diag = "failed to initialize/verify"

C23_Witness ==
    /\ ENV_TYPE = "prod" /\ startup.pc = "done" /\ startup.probe = "NotFound"
    /\ startup.calls = <<"Client", "user">>
    /\ startup.diag = "404: invalid cookies or API change"

\* C29: a search request that arrives while twikit_client holds no session is
\* rejected with HTTP 503 and no provider call whatever its dates, and a
\* search request answered with HTTP 400 has passed the Gate.
C29_GateBeforeValidation ==
    [][ \A t \in TaskIds :
          (tasks[t].pc = "idle" /\ tasks'[t].kind = "search") =>
              /\ ~ClientReady =>
                   /\ tasks'[t].pc = "done" /\ tasks'[t].status = 503
                   /\ tasks'[t].calls = <<>>
              /\ tasks'[t].status = 400 => (ClientReady /\ tasks'[t].gate = "passed")
      ]_vars

C29_Witness ==
    /\ twikit_client = NoClient
    /\ tasks[1].kind = "search" /\ tasks[1].start = Date(2) /\ tasks[1].end = Date(1)
    /\ tasks[1].status = 503

-----------------------------------------------------------------------------
(* Properties of requests in flight while the store changes, and of the counts
   of a search *)

\* C26: a protected request that passed the Gate holds, for as long as it is
\* in flight, the client it was handed (a published client with a verified
\* user), also when twikit_client has been cleared or replaced meanwhile; its
\* provider calls end in its own response, never in a 503; and none of its
\* steps writes twikit_client, a client's _logged_in_user or
\* login_error_message.
C26_HandleKeptAcrossStoreChange ==
    [][ \A t \in TaskIds :
          /\ (tasks'[t].kind \in Protected /\ InFlight(t)') =>
                /\ tasks'[t].client # NoClient
                /\ published'[tasks'[t].client]
                /\ UserVerified(logged_in_user'[tasks'[t].client])
                /\ tasks[t].pc = "idle" => tasks'[t].client = twikit_client
                /\ InFlight(t) =>
                     /\ tasks'[t].client = tasks[t].client
                     /\ logged_in_user'[tasks'[t].client] = logged_in_user[tasks[t].client]
          /\ (tasks'[t].kind \in Protected /\ tasks'[t] # tasks[t] /\ tasks[t].pc # "done") =>
                /\ twikit_client' = twikit_client
                /\ login_error_message' = login_error_message
                /\ \A c \in ClientIds : c \in Refs(twikit_client', tasks', startup') =>
                      logged_in_user'[c] = logged_in_user[c]
          /\ (tasks[t].kind \in Protected /\ InFlight(t) /\ tasks'[t].pc = "done") =>
                /\ tasks'[t].status \in {200, 201, 404, 429, 500}
                /\ (tasks[t].kind = "create_tweet" /\ tasks'[t].got = "201") =>
                      tasks'[t].status = 201
      ]_vars

C26_Witness ==
    /\ twikit_client = NoClient
    /\ tasks[1].kind = "relogin" /\ tasks[1].pc = "done"
    /\ tasks[1].detail = "Manual login failed. Check logs for details."
    /\ tasks[2].kind = "create_tweet" /\ tasks[2].pc = "create_tweet"
    /\ UserVerified(logged_in_user[tasks[2].client])

\* C27: once twikit_client holds a session it holds one from then on (a
\* session is only ever replaced by another session): no relogin attempt
\* that fails empties a store that another attempt has filled, and the Gate
\* accepts protected requests ever after a successful relogin.
C27_SessionStaysUntilReplaced ==
    [][ClientReady => ClientReady']_vars

\* C28: at the end of a search that returns, no record without a timestamp
\* (absent or empty) is in the result, with or without a date range;
\* filtered_count is the number of records whose timestamp parses and whose
\* date is before start or after end; and the records kept, filtered out and
\* skipped (no timestamp, or one that does not parse) add up to the batch.
OutOfRange(i) ==
    \/ (norm.start.p = "date" /\ norm.tweets[i].created_at.date < norm.start.d)
    \/ (norm.end.p = "date" /\ norm.tweets[i].created_at.date > norm.end.d)
Skipped == {i \in 1..Len(norm.tweets) :
               norm.tweets[i].created_at.form \in {"absent", "empty"}
               \/ (norm.tweets[i].created_at.form = "string"
                     /\ ~norm.tweets[i].created_at.parses)}

C28_SearchCounts ==
    (norm.pc = "done" /\ norm.op = "search" /\ ~norm.raised) =>
        /\ \A i \in 1..Len(norm.tweets) :
              norm.tweets[i].created_at.form \in {"absent", "empty"} => i \notin KeptIndices
        /\ norm.filtered_count =
              Cardinality({i \in (1..Len(norm.tweets)) \ Skipped : OutOfRange(i)})
        /\ Len(norm.response_data) + norm.filtered_count + Cardinality(Skipped)
              = Len(norm.tweets)

C28_Witness ==
    /\ norm.pc = "done" /\ norm.op = "search" /\ ~norm.raised
    /\ norm.start = AbsentDate /\ norm.end = AbsentDate
    /\ Len(norm.tweets) = 2
    /\ norm.tweets[1].created_at = CreatedAtEmpty
    /\ norm.tweets[2].created_at = CreatedAt("string", TRUE, 2)
    /\ KeptIndices = {2} /\ norm.filtered_count = 0

-----------------------------------------------------------------------------
(* Properties of the media extraction *)

Unparsed(i) == media.variants[i].bitrate.kind \in {"absent", "None", "garbage"}

\* C24: an MP4 variant with a URL whose bitrate is missing or does not parse
\* counts with bitrate 0: it is the one selected when it is the only MP4
\* variant with a URL, and when every other such variant comes before it with
\* bitrate 0; an MP4 variant without URL is never the one selected, and the
\* best of the variants with a URL is selected whatever the bitrates of the
\* variants without URL.
C24_UnparsedBitrateCountsZero ==
    media.pc = "done" =>
        /\ \A j \in Candidates :
              (Unparsed(j) /\ \A i \in Candidates \ {j} : i < j /\ BitrateAt(i) = 0) =>
                  media.media_urls = <<media.variants[j].url>>
        /\ \A k \in 1..Len(media.media_urls) :
              /\ media.media_urls[k] # NONE
              /\ \E i \in Candidates : media.media_urls[k] = media.variants[i].url
        /\ \A i \in Candidates :
              (BitrateAt(i) >= 0
                 /\ \A j \in Candidates \ {i} :
                       BitrateAt(j) < BitrateAt(i) \/ (BitrateAt(j) = BitrateAt(i) /\ j < i)) =>
                  media.media_urls = <<media.variants[i].url>>

C24_Witness ==
    /\ media.pc = "done" /\ Len(media.variants) = 3
    /\ media.variants[1] = Variant("video/mp4", Bitrate(900), NONE)
    /\ media.variants[2] = Variant("video/mp4", Bitrate(0), UrlAt(2))
    /\ media.variants[3] = Variant("video/mp4", GarbageBitrate, UrlAt(3))
    /\ media.media_urls = <<UrlAt(3)>>

\* C25: the media_urls of a record are those of the items of
\* extended_entities['media'] when that list is there and not empty, else of
\* the items of tweet.media, never of both: in the order of that list, a photo
\* or animated gif giving its media_url_https, a video at most one URL (never
\* its thumbnail), anything else nothing; a URL that occurs twice is there twice.
ChosenList ==
    IF media.extended_is_dict /\ Len(media.extended_media) > 0
    THEN media.extended_media ELSE media.media

Contribution(item) ==
    CASE item.type \in {"photo", "animated_gif"} ->
            IF item.media_url_https \in {NONE, ""} THEN <<>> ELSE <<item.media_url_https>>
      [] item = VideoWithMp4 -> <<"https://video.twimg.com/hi.mp4">>
      [] OTHER -> <<>>

RECURSIVE Contributions(_)
Contributions(items) ==
    IF items = <<>> THEN <<>>
    ELSE Contribution(Head(items)) \o Contributions(Tail(items))

C25_MediaListChoiceAndOrder ==
    media.pc = "extracted" =>
        /\ media.media_urls = Contributions(ChosenList)
        /\ Len(media.media_urls) <= Len(ChosenList)

C25_Witness ==
    /\ media.pc = "extracted" /\ media.extended_is_dict
    /\ media.extended_media = <<Photo("https://pbs.twimg.com/a.jpg"),
                                AnimatedGif("https://pbs.twimg.com/a.jpg")>>
    /\ media.media = <<VideoWithMp4>>
    /\ media.media_urls = <<"https://pbs.twimg.com/a.jpg", "https://pbs.twimg.com/a.jpg">>

\* C30: a video item with at least one MP4 variant that has a URL gives
\* exactly one URL, whatever integer bitrates its variants carry.
C30_VideoWithMp4GivesOneUrl ==
    (media.pc = "done" /\ Candidates # {}) => Len(media.media_urls) = 1

====
